---- MODULE Spec2Model ----
(***************************************************************************)
(* Part tree (ModelPart / ModelPartList), background STL loading and       *)
(* render synchronisation of MainWindow, as a state machine.               *)
(*                                                                         *)
(* A ModelPart object is named by the number of its allocation: 0 is the   *)
(* header item of ModelPartList, 1 the "Model" item seeded at start-up.    *)
(* A QVariant is written as a tuple: <<s>> for the text s, <<r, g, b>> for *)
(* the text "r,g,b", << >> for the empty QVariant.                         *)
(***************************************************************************)
EXTENDS Integers, Sequences, FiniteSets, TLC

\* ---------------------------------------------------------------- bounds
MaxParts == 3        \* ModelPart objects allocated after the header item
MaxDialogs == 1      \* new-group dialogs open at the same time
MaxEdits == 1        \* option dialogs accepted

\* ------------------------------------------------------------- constants
Nil == -1            \* nullptr / the invalid QModelIndex
RootId == 0          \* ModelPartList::rootItem
FloorActor == -2     \* the actor addFloor() puts into the renderer
ByteRange == 256     \* unsigned char

White == <<255, 255, 255>>
Red == <<255, 0, 0>>
GroupNames == {"Model", "Assembly"}        \* names typed into the new-group dialog
\* what the option dialog is accepted with: the visibility and colour chosen,
\* and the name either as the dialog showed it or retyped
OptionChoices == {<<FALSE, Red>>, <<TRUE, White>>}
OptionNames(shown) == {shown, "Assembly"}
CubePath == <<"home", "cube.stl">>
GearPath == <<"home", "gear.stl">>
MissingPath == <<"home", "missing.stl">>
Paths == {CubePath, GearPath, MissingPath} \* files picked in the file dialog
Readable == {CubePath, GearPath}           \* files vtkSTLReader can parse

VARIABLES
    part,          \* live ModelPart objects: id -> fields
    nextId,        \* number of ModelPart objects allocated so far
    freed,         \* ids of the destroyed ModelPart objects
    renderer,      \* vtkRenderer's view props, in the order they were added
    currentIndex,  \* ui->treeView->currentIndex(): a part id or Nil
    loads,         \* per file: how far its createModelPartFromFile call has got
    queue,         \* completion closures posted to the main thread
    dialogs,       \* open NewGroupDialogs: the index each lambda captured
    crashed,       \* the process died on a dangling pointer
    rowsSignalled, \* per part: rows announced by rowsInserted / rowsRemoved
    edits,         \* option dialogs accepted so far
    returned       \* what the last call a client made on ModelPartList returned

vars == <<part, nextId, freed, renderer, currentIndex, loads, queue, dialogs,
          crashed, rowsSignalled, edits, returned>>

\* ------------------------------------------------------------- QVariant
QStr(s) == <<s>>
QEmpty == << >>
BoolText(b) == IF b THEN QStr("true") ELSE QStr("false")
ColourText(c) == <<c[1], c[2], c[3]>>
FileName(path) == path[Len(path)]

\* ------------------------------------------------------------- ModelPart
InvalidColour == [valid |-> FALSE, rgb |-> <<0, 0, 0>>]

NewModelPart(data, parent) ==
    [m_itemData |-> data, m_parentItem |-> parent, m_childItems |-> << >>,
     isVisible |-> FALSE, color |-> InvalidColour,
     actor |-> FALSE, actorVisible |-> FALSE, meshRead |-> FALSE,
     reader |-> FALSE]

IndexOf(seq, x) ==
    IF \E i \in 1..Len(seq) : seq[i] = x
    THEN (CHOOSE i \in 1..Len(seq) :
              seq[i] = x /\ \A j \in 1..(i - 1) : seq[j] # x) - 1
    ELSE -1

TakeAt(seq, pos) ==
    [i \in 1..(Len(seq) - 1) |-> IF i <= pos THEN seq[i] ELSE seq[i + 1]]

AppendChildNoBackRef(parts, p, item) ==
    [parts EXCEPT ![p].m_childItems = Append(@, item)]

AppendChildReplacing(parts, p, item) ==
    [parts EXCEPT ![item].m_parentItem = p, ![p].m_childItems = <<item>>]

AppendChildTwice(parts, p, item) ==
    [parts EXCEPT ![item].m_parentItem = p,
                  ![p].m_childItems = Append(Append(@, item), item)]

AppendChild(parts, p, item) ==
    [parts EXCEPT ![item].m_parentItem = p,
                  ![p].m_childItems = Append(@, item)]

Child(parts, p, row) ==
    IF row < 0 \/ row >= Len(parts[p].m_childItems)
    THEN Nil
    ELSE parts[p].m_childItems[row + 1]

ChildCount(parts, p) == Len(parts[p].m_childItems)

DataClamped(parts, p, column) ==
    IF column < 0 \/ column >= Len(parts[p].m_itemData)
    THEN parts[p].m_itemData[1]
    ELSE parts[p].m_itemData[column + 1]

Data(parts, p, column) ==
    IF column < 0 \/ column >= Len(parts[p].m_itemData)
    THEN QEmpty
    ELSE parts[p].m_itemData[column + 1]

Set(parts, p, column, value) ==
    IF column >= 0 /\ column < Len(parts[p].m_itemData)
    THEN [parts EXCEPT ![p].m_itemData[column + 1] = value]
    ELSE parts

Row(parts, p) ==
    IF parts[p].m_parentItem # Nil
    THEN IndexOf(parts[parts[p].m_parentItem].m_childItems, p)
    ELSE 0

SetColour(parts, p, R, G, B) ==
    [parts EXCEPT ![p].color =
        [valid |-> TRUE,
         rgb |-> <<R % ByteRange, G % ByteRange, B % ByteRange>>]]

SetVisible(parts, p, v) == [parts EXCEPT ![p].isVisible = v]

LoadSTLNothing(parts, p, path) == parts

LoadSTL(parts, p, path) ==
    [parts EXCEPT ![p].actor = TRUE, ![p].actorVisible = TRUE,
                  ![p].meshRead = (path \in Readable)]

\* the actor getNewActor() makes: its mapper reads from the part's reader,
\* its property is a copy of the property of the part's actor
GetNewActor(parts, p) ==
    IF ~parts[p].actor \/ ~parts[p].reader
    THEN Nil
    ELSE [mapperInput |-> p, property |-> parts[p].color.rgb]

RECURSIVE Subtree(_, _)
Subtree(parts, n) ==
    {n} \cup UNION {Subtree(parts, parts[n].m_childItems[i]) :
                        i \in 1..Len(parts[n].m_childItems)}

DestroyPartOnly(parts, n) == [x \in (DOMAIN parts) \ {n} |-> parts[x]]

\* ~ModelPart: qDeleteAll(m_childItems), then the object itself
Destroy(parts, n) ==
    LET gone == Subtree(parts, n)
    IN  [x \in (DOMAIN parts) \ gone |-> parts[x]]

RemoveChild(parts, p, position) ==
    IF position < 0 \/ position >= Len(parts[p].m_childItems)
    THEN parts
    ELSE LET victim == parts[p].m_childItems[position + 1]
             taken == [parts EXCEPT ![p].m_childItems = TakeAt(@, position)]
         IN  Destroy(taken, victim)

\* --------------------------------------------------------- ModelPartList
GetItem(index) == IF index = Nil THEN RootId ELSE index

RowCount(parts, index) == ChildCount(parts, GetItem(index))

Index(parts, row, parentIndex) ==
    IF row < 0 \/ row >= RowCount(parts, parentIndex)
    THEN Nil
    ELSE Child(parts, GetItem(parentIndex), row)

ParentWithoutRootCheck(parts, index) ==
    IF index = Nil THEN Nil ELSE parts[index].m_parentItem

Parent(parts, index) ==
    IF index = Nil
    THEN Nil
    ELSE LET parentItem == parts[index].m_parentItem
         IN  IF parentItem = RootId \/ parentItem = Nil THEN Nil ELSE parentItem

RECURSIVE RemoveRowsLoop(_, _, _, _)
RemoveRowsLoop(parts, p, position, rows) ==
    IF rows <= 0
    THEN parts
    ELSE RemoveRowsLoop(RemoveChild(parts, p, position), p, position, rows - 1)

RemoveRowsOk(parts, position, rows, parentIndex) ==
    ~(position < 0 \/ position + rows > ChildCount(parts, GetItem(parentIndex)))

RemoveRows(parts, position, rows, parentIndex) ==
    IF RemoveRowsOk(parts, position, rows, parentIndex)
    THEN RemoveRowsLoop(parts, GetItem(parentIndex), position, rows)
    ELSE parts

TreeNodes == Subtree(part, RootId)


\* ------------------------------------------------------------ MainWindow
SeqToSet(seq) == {seq[i] : i \in 1..Len(seq)}

AddViewProp(props, a) == IF a \in SeqToSet(props) THEN props ELSE Append(props, a)

RemoveViewProp(props, a) == SelectSeq(props, LAMBDA x : x # a)

AddFloor(props) == AddViewProp(props, FloorActor)

\* MainWindow::MainWindow: initializePartList, setupTreeView (which seeds
\* the "Model" item), setupRenderer (which adds the floor)
AddModelPartToTree(parts) ==
    LET made == (1 :> NewModelPart(<<QStr("Model"), QStr("true"), ColourText(White)>>, Nil))
                    @@ parts
    IN  AppendChild(made, RootId, 1)

NotLoaded ==
    [stage |-> "idle", node |-> Nil, target |-> Nil, okMsgs |-> 0, failMsgs |-> 0]

\* the QModelIndex a client of ModelPartList holds: row, column and
\* internalPointer; QModelIndex() has row and column -1
CreateIndex(row, column, ptr) == [row |-> row, column |-> column, ptr |-> ptr]

InvalidIndex == CreateIndex(-1, -1, Nil)

NoCall ==
    [op |-> "none", ok |-> FALSE, index |-> InvalidIndex, item |-> Nil, value |-> QEmpty]

Init ==
    /\ part = AddModelPartToTree(
                  (RootId :> NewModelPart(<<QStr("Part"), QStr("Visible?"), QStr("Colour")>>, Nil)))
    /\ nextId = 2
    /\ freed = {}
    /\ renderer = AddFloor(<< >>)
    /\ currentIndex = Nil
    /\ loads = [f \in Paths |-> NotLoaded]
    /\ queue = << >>
    /\ dialogs = << >>
    /\ crashed = FALSE
    /\ rowsSignalled = [x \in {RootId, 1} |-> 0]
    /\ edits = 0
    /\ returned = NoCall

\* renderer->RemoveAllViewProps(), then one AddActor per part with an actor,
\* walking the rows of every index from the top level down
RECURSIVE UpdateRenderFromTree(_, _, _), UpdateRenderRows(_, _, _, _)
UpdateRenderFromTreeVisibleOnly(parts, index, props) ==
    IF index = Nil
    THEN props
    ELSE UpdateRenderRows(parts, index, 0,
             IF parts[index].actor /\ parts[index].isVisible
             THEN AddViewProp(props, index) ELSE props)

UpdateRenderFromTreePostOrder(parts, index, props) ==
    IF index = Nil
    THEN props
    ELSE LET below == UpdateRenderRows(parts, index, 0, props)
         IN  IF parts[index].actor THEN AddViewProp(below, index) ELSE below

UpdateRenderFromTree(parts, index, props) ==
    IF index = Nil
    THEN props
    ELSE UpdateRenderRows(parts, index, 0,
             IF parts[index].actor THEN AddViewProp(props, index) ELSE props)

UpdateRenderRows(parts, index, i, props) ==
    IF i >= RowCount(parts, index)
    THEN props
    ELSE UpdateRenderRows(parts, index, i + 1,
             UpdateRenderFromTree(parts, Index(parts, i, index), props))

UpdateRenderTopLevelOnly(parts) ==
    SelectSeq(parts[RootId].m_childItems, LAMBDA x : parts[x].actor)

UpdateRender(parts) == UpdateRenderRows(parts, Nil, 0, << >>)

ApplyPropertiesAlwaysRenaming(w, p, name, visibility, colour, updateName) ==
    IF p = Nil
    THEN w
    ELSE LET p0 == Set(w.part, p, 0, QStr(name))
             p1 == Set(p0, p, 1, BoolText(visibility))
             p2 == Set(p1, p, 2, ColourText(colour))
             p3 == SetColour(p2, p, colour[1], colour[2], colour[3])
             p4 == SetVisible(p3, p, visibility)
         IN  IF p4[p].actor
             THEN LET p5 == [p4 EXCEPT ![p].actorVisible = visibility]
                  IN  [part |-> p5, renderer |-> UpdateRender(p5)]
             ELSE [w EXCEPT !.part = p4]

ApplyPropertiesAlwaysResync(w, p, name, visibility, colour, updateName) ==
    IF p = Nil
    THEN w
    ELSE LET p0 == IF updateName THEN Set(w.part, p, 0, QStr(name)) ELSE w.part
             p1 == Set(p0, p, 1, BoolText(visibility))
             p2 == Set(p1, p, 2, ColourText(colour))
             p3 == SetColour(p2, p, colour[1], colour[2], colour[3])
             p4 == SetVisible(p3, p, visibility)
             p5 == [p4 EXCEPT ![p].actorVisible = p4[p].actor /\ visibility]
         IN  [part |-> p5, renderer |-> UpdateRender(p5)]

\* w = [part, renderer]: the tree and the renderer a handler works on
ApplyPropertiesToPart(w, p, name, visibility, colour, updateName) ==
    IF p = Nil
    THEN w
    ELSE LET p0 == IF updateName THEN Set(w.part, p, 0, QStr(name)) ELSE w.part
             p1 == Set(p0, p, 1, BoolText(visibility))
             p2 == Set(p1, p, 2, ColourText(colour))
             p3 == SetColour(p2, p, colour[1], colour[2], colour[3])
             p4 == SetVisible(p3, p, visibility)
         IN  IF p4[p].actor
             THEN LET p5 == [p4 EXCEPT ![p].actorVisible = visibility]
                  IN  [part |-> p5, renderer |-> UpdateRender(p5)]
             ELSE [w EXCEPT !.part = p4]

RECURSIVE UpdateChildrenProperties(_, _, _, _, _)
UpdateDirectChildrenOnly(w, p, i, visibility, colour) ==
    IF i >= ChildCount(w.part, p)
    THEN w
    ELSE UpdateChildrenProperties(
             ApplyPropertiesToPart(w, Child(w.part, p, i), "", visibility, colour, FALSE),
             p, i + 1, visibility, colour)

UpdateEveryPart(w, p, i, visibility, colour) ==
    [w EXCEPT !.part =
        [n \in DOMAIN w.part |->
            IF n = RootId
            THEN w.part[n]
            ELSE [w.part[n] EXCEPT !.isVisible = visibility,
                                   !.color = [valid |-> TRUE, rgb |-> colour]]]]

UpdateChildrenProperties(w, p, i, visibility, colour) ==
    IF i >= ChildCount(w.part, p)
    THEN w
    ELSE LET child == Child(w.part, p, i)
             w1 == ApplyPropertiesToPart(w, child, "", visibility, colour, FALSE)
             w2 == UpdateChildrenProperties(w1, child, 0, visibility, colour)
         IN  UpdateChildrenProperties(w2, p, i + 1, visibility, colour)

\* the parts applyPropertiesToPart is called on by updateChildrenProperties,
\* in the order of the calls
RECURSIVE UpdateChildrenVisits(_, _, _)
UpdateChildrenVisits(parts, p, i) ==
    IF i >= ChildCount(parts, p)
    THEN << >>
    ELSE LET child == Child(parts, p, i)
         IN  <<child>> \o UpdateChildrenVisits(parts, child, 0)
                       \o UpdateChildrenVisits(parts, p, i + 1)

RemoveActorsOfPartOnly(parts, p, props) ==
    IF p # Nil /\ parts[p].actor THEN RemoveViewProp(props, p) ELSE props

RECURSIVE RemoveActorsRecursively(_, _, _), RemoveActorsOfRows(_, _, _, _)
RemoveActorsRecursively(parts, p, props) ==
    IF p = Nil
    THEN props
    ELSE RemoveActorsOfRows(parts, p, 0,
             IF parts[p].actor THEN RemoveViewProp(props, p) ELSE props)

RemoveActorsOfRows(parts, p, i, props) ==
    IF i >= ChildCount(parts, p)
    THEN props
    ELSE RemoveActorsOfRows(parts, p, i + 1,
             RemoveActorsRecursively(parts, Child(parts, p, i), props))

Running == {f \in Paths : loads[f].stage = "running"}

\* clicking an item (or finding it with the search action) makes it current
handleTreeClicked(n) ==
    /\ ~crashed
    /\ n \in TreeNodes \ {RootId}
    /\ currentIndex' = n
    /\ UNCHANGED <<part, nextId, freed, renderer, loads, queue, dialogs, crashed,
                   rowsSignalled, edits, returned>>

\* ---- new group: the dialog is shown non-modal, the lambda keeps the index
on_actionNewGroup_triggered ==
    /\ ~crashed
    /\ Len(dialogs) < MaxDialogs
    /\ dialogs' = Append(dialogs, currentIndex)
    /\ UNCHANGED <<part, nextId, freed, renderer, currentIndex, loads, queue, crashed,
                   rowsSignalled, edits, returned>>

NewGroupPartWithActor(parts, g, groupName) ==
    (g :> [NewModelPart(<<QStr(groupName), QStr("true"), ColourText(White)>>, Nil)
              EXCEPT !.actor = TRUE]) @@ parts

NewGroupPart(parts, g, groupName) ==
    (g :> NewModelPart(<<QStr(groupName), QStr("true"), ColourText(White)>>, Nil)) @@ parts

\* index.internalPointer() of a destroyed part is dangling: appendChild then
\* writes into freed memory (the group is lost), into a part allocated there
\* later, or the process dies
NewGroupDialog_accepted(i, groupName) ==
    /\ ~crashed
    /\ i \in 1..Len(dialogs)
    /\ nextId + Cardinality(Running) <= MaxParts
    /\ LET index == dialogs[i]
           g == nextId
           made == NewGroupPart(part, g, groupName)
       IN  /\ dialogs' = TakeAt(dialogs, i - 1)
           /\ IF GetItem(index) \in DOMAIN part
              THEN /\ part' = AppendChild(made, GetItem(index), g)
                   /\ nextId' = nextId + 1
                   /\ rowsSignalled' = (g :> 0) @@ rowsSignalled
                   /\ crashed' = crashed
              ELSE \/ /\ part' = [made EXCEPT ![g].m_parentItem = index]
                      /\ nextId' = nextId + 1
                      /\ rowsSignalled' = (g :> 0) @@ rowsSignalled
                      /\ crashed' = crashed
                   \/ \E y \in DOMAIN part :
                         /\ y > index
                         /\ part' = AppendChild(made, y, g)
                         /\ nextId' = nextId + 1
                         /\ rowsSignalled' = (g :> 0) @@ rowsSignalled
                         /\ crashed' = crashed
                   \/ /\ crashed' = TRUE
                      /\ UNCHANGED <<part, nextId, rowsSignalled>>
    /\ UNCHANGED <<freed, renderer, currentIndex, loads, queue, edits, returned>>

NewGroupDialog_rejected(i) ==
    /\ ~crashed
    /\ i \in 1..Len(dialogs)
    /\ dialogs' = TakeAt(dialogs, i - 1)
    /\ UNCHANGED <<part, nextId, freed, renderer, currentIndex, loads, queue, crashed,
                   rowsSignalled, edits, returned>>

\* ---- loading: QtConcurrent::run per file, the closure posted back
\* the file dialog returns one or two files, each picked at most once
FileLists ==
    {<<a>> : a \in Paths} \cup
    {<<ab[1], ab[2]>> : ab \in {x \in Paths \X Paths : x[1] # x[2]}}

\* target: the index that was current when the file was submitted; the code
\* keeps no such thing, it is recorded here until the closure has run
CreateModelPartFromFile(ls, fileName) ==
    [ls EXCEPT ![fileName] = [NotLoaded EXCEPT !.stage = "running",
                                               !.target = currentIndex]]

RECURSIVE SubmitAll(_, _, _)
SubmitAll(ls, fileNames, i) ==
    IF i > Len(fileNames)
    THEN ls
    ELSE SubmitAll(CreateModelPartFromFile(ls, fileNames[i]), fileNames, i + 1)

on_actionOpen_File_triggered(fileNames) ==
    /\ ~crashed
    /\ \A i \in 1..Len(fileNames) : loads[fileNames[i]].stage = "idle"
    /\ nextId + Cardinality(Running) + Len(fileNames) <= MaxParts + 1
    /\ loads' = SubmitAll(loads, fileNames, 1)
    /\ UNCHANGED <<part, nextId, freed, renderer, currentIndex, queue, dialogs,
                   crashed, rowsSignalled, edits, returned>>

BuildPartIntoTree(parts, id, path) ==
    LET made == (id :> NewModelPart(
                     <<QStr(FileName(path)), QStr("true"), ColourText(White)>>, Nil)) @@ parts
        read == LoadSTL(made, id, path)
        col == SetColour(read, id, White[1], White[2], White[3])
    IN  AppendChild(SetVisible(col, id, TRUE), RootId, id)

\* the worker lambda: builds newPart on its own, then invokeMethod(..., Qt::QueuedConnection)
BuildPart(parts, id, path) ==
    LET made == (id :> NewModelPart(
                     <<QStr(FileName(path)), QStr("true"), ColourText(White)>>, Nil)) @@ parts
        read == LoadSTL(made, id, path)
        col == SetColour(read, id, White[1], White[2], White[3])
    IN  SetVisible(col, id, TRUE)

WorkerNeverPosts(fileName) ==
    /\ ~crashed
    /\ fileName \in Running
    /\ part' = BuildPart(part, nextId, fileName)
    /\ nextId' = nextId + 1
    /\ rowsSignalled' = (nextId :> 0) @@ rowsSignalled
    /\ loads' = [loads EXCEPT ![fileName].stage = "queued", ![fileName].node = nextId]
    /\ UNCHANGED <<freed, renderer, currentIndex, queue, dialogs, crashed, edits, returned>>

Worker(fileName) ==
    /\ ~crashed
    /\ fileName \in Running
    /\ part' = BuildPart(part, nextId, fileName)
    /\ nextId' = nextId + 1
    /\ rowsSignalled' = (nextId :> 0) @@ rowsSignalled
    /\ loads' = [loads EXCEPT ![fileName].stage = "queued", ![fileName].node = nextId]
    /\ queue' = Append(queue, fileName)
    /\ UNCHANGED <<freed, renderer, currentIndex, dialogs, crashed, edits, returned>>

\* the completion closure, run by the main thread's event loop
CompletionParentAlwaysRoot(index) == RootId

CompletionParent(index) == IF index # Nil THEN index ELSE RootId

Completion ==
    /\ ~crashed
    /\ queue # << >>
    /\ LET fileName == Head(queue)
           newPart == loads[fileName].node
           parentPart == CompletionParent(currentIndex)
           grown == AppendChild(part, parentPart, newPart)
       IN  /\ part' = grown
           /\ renderer' = AddFloor(UpdateRender(grown))
           /\ loads' = [loads EXCEPT ![fileName].stage = "done",
                                     ![fileName].target = Nil,
                                     ![fileName].okMsgs = @ + 1]
    /\ queue' = Tail(queue)
    /\ UNCHANGED <<nextId, freed, currentIndex, dialogs, crashed, rowsSignalled, edits,
                   returned>>

\* ---- item options: the selected part, then all its descendants
on_actionItemOptions_triggered(name, visibility, colour) ==
    /\ ~crashed
    /\ IF currentIndex = Nil
       THEN UNCHANGED <<part, renderer, edits>>
       ELSE /\ edits < MaxEdits
            /\ LET selectedPart == currentIndex
                   w0 == [part |-> part, renderer |-> renderer]
                   w1 == ApplyPropertiesToPart(w0, selectedPart, name, visibility, colour, TRUE)
                   w2 == UpdateChildrenProperties(w1, selectedPart, 0, visibility, colour)
               IN  /\ part' = w2.part
                   /\ renderer' = w2.renderer
            /\ edits' = edits + 1
    /\ UNCHANGED <<nextId, freed, currentIndex, loads, queue, dialogs, crashed,
                   rowsSignalled, returned>>

\* ---- delete: actors out of the renderer first, then removeRows
\* the view's current index once the row is gone: the row below or above it,
\* and with no sibling left the parent or none; never the removed row
CurrentAfterRemove(parts, index) ==
    LET p == parts[index].m_parentItem
        r == Row(parts, index)
        siblings == {Child(parts, p, r - 1), Child(parts, p, r + 1)} \ {Nil}
    IN  IF siblings # {} THEN siblings ELSE {Parent(parts, index), Nil}

on_actionDeleteFile_triggered(response) ==
    /\ ~crashed
    /\ IF \/ currentIndex = Nil
          \/ Data(part, GetItem(currentIndex), 0) = QStr("Model")
          \/ ~response
       THEN UNCHANGED <<part, freed, renderer, currentIndex, rowsSignalled>>
       ELSE LET selectedItem == currentIndex
                props == RemoveActorsRecursively(part, selectedItem, renderer)
                row == Row(part, currentIndex)
                parentIndex == Parent(part, currentIndex)
                ok == RemoveRowsOk(part, row, 1, parentIndex)
                shrunk == RemoveRows(part, row, 1, parentIndex)
                gone == (DOMAIN part) \ (DOMAIN shrunk)
            IN  /\ renderer' = props
                /\ part' = shrunk
                /\ freed' = freed \cup gone
                /\ rowsSignalled' =
                       [x \in DOMAIN shrunk |->
                           IF ok /\ x = GetItem(parentIndex)
                           THEN rowsSignalled[x] - 1
                           ELSE rowsSignalled[x]]
                /\ IF ok
                   THEN currentIndex' \in CurrentAfterRemove(part, currentIndex)
                   ELSE currentIndex' = currentIndex
    /\ UNCHANGED <<nextId, loads, queue, dialogs, crashed, edits, returned>>

Next ==
    \/ \E n \in 1..MaxParts : handleTreeClicked(n)
    \/ on_actionNewGroup_triggered
    \/ \E i \in 1..MaxDialogs, name \in GroupNames : NewGroupDialog_accepted(i, name)
    \/ \E i \in 1..MaxDialogs : NewGroupDialog_rejected(i)
    \/ \E fileNames \in FileLists : on_actionOpen_File_triggered(fileNames)
    \/ \E fileName \in Paths : Worker(fileName)
    \/ Completion
    \/ \E name \in OptionNames(Data(part, GetItem(currentIndex), 0)[1]),
          choice \in OptionChoices :
           on_actionItemOptions_triggered(name, choice[1], choice[2])
    \/ \E response \in BOOLEAN : on_actionDeleteFile_triggered(response)

Spec == Init /\ [][Next]_vars

\* QtConcurrent::run starts every worker lambda and the event loop of the
\* main thread runs every closure posted to it
\* every handler but the option dialog, which starts, stops and delays no load
NextLoading ==
    \/ \E n \in 1..MaxParts : handleTreeClicked(n)
    \/ on_actionNewGroup_triggered
    \/ \E i \in 1..MaxDialogs, name \in GroupNames : NewGroupDialog_accepted(i, name)
    \/ \E i \in 1..MaxDialogs : NewGroupDialog_rejected(i)
    \/ \E fileNames \in FileLists : on_actionOpen_File_triggered(fileNames)
    \/ \E fileName \in Paths : Worker(fileName)
    \/ Completion
    \/ \E response \in BOOLEAN : on_actionDeleteFile_triggered(response)

LiveSpec ==
    /\ Init
    /\ [][NextLoading]_vars
    /\ \A fileName \in Paths : WF_vars(Worker(fileName))
    /\ WF_vars(Completion)

\* ------------------------------------- ModelPartList, called by any client
IsValid(index) == index.row >= 0 /\ index.column >= 0

ModelPartList_getItem(index) == IF ~IsValid(index) THEN RootId ELSE index.ptr

ModelPartList_rowCount(parts, parent) ==
    IF IsValid(parent) /\ parent.column # 0
    THEN 0
    ELSE ChildCount(parts, ModelPartList_getItem(parent))

ModelPartList_columnCount(parts) == Len(parts[RootId].m_itemData)

HasIndex(parts, row, column, parent) ==
    /\ row >= 0 /\ column >= 0
    /\ row < ModelPartList_rowCount(parts, parent)
    /\ column < ModelPartList_columnCount(parts)

ModelPartList_index(parts, row, column, parent) ==
    IF ~HasIndex(parts, row, column, parent)
    THEN InvalidIndex
    ELSE LET childItem == Child(parts, ModelPartList_getItem(parent), row)
         IN  IF childItem # Nil THEN CreateIndex(row, column, childItem) ELSE InvalidIndex

ModelPartList_parentOfItself(parts, index) ==
    IF ~IsValid(index)
    THEN InvalidIndex
    ELSE CreateIndex(Row(parts, ModelPartList_getItem(index)), 0, ModelPartList_getItem(index))

ModelPartList_parent(parts, index) ==
    IF ~IsValid(index)
    THEN InvalidIndex
    ELSE LET childItem == ModelPartList_getItem(index)
             parentItem == parts[childItem].m_parentItem
         IN  IF parentItem = RootId \/ parentItem = Nil
             THEN InvalidIndex
             ELSE CreateIndex(Row(parts, parentItem), 0, parentItem)

\* the range applyPropertiesToPart hands to dataChanged: model->index(...)
\* with the parent left at its default, QModelIndex()
ApplyDataChanged(parts, p) ==
    <<ModelPartList_index(parts, Row(parts, p), 0, InvalidIndex),
      ModelPartList_index(parts, Row(parts, p), ModelPartList_columnCount(parts),
                          InvalidIndex)>>

\* the range the completion closure hands to dataChanged
CompletionDataChanged(parts, newPart) ==
    <<ModelPartList_index(parts, Row(parts, newPart), 0, InvalidIndex),
      ModelPartList_index(parts, Row(parts, newPart), ModelPartList_columnCount(parts) - 1,
                          InvalidIndex)>>

\* the indexes a client can hold: QModelIndex() and, for every part in the
\* tree, one index per column
ClientIndexes(parts) ==
    {InvalidIndex} \cup
    {CreateIndex(Row(parts, n), c, n) :
        n \in Subtree(parts, RootId) \ {RootId},
        c \in 0..(ModelPartList_columnCount(parts) - 1)}

Positions == -1..MaxParts       \* the position and the rows a client passes

ClientData == {<<QStr(n), QStr("true"), ColourText(White)>> : n \in GroupNames}

ModelPartList_appendChild(parent, data) ==
    /\ ~crashed
    /\ nextId <= MaxParts
    /\ LET parentPart == ModelPartList_getItem(parent)
           childPart == nextId
           made == (childPart :> NewModelPart(data, parentPart)) @@ part
           grown == AppendChild(made, parentPart, childPart)
       IN  /\ part' = grown
           /\ rowsSignalled' =
                  (childPart :> 0) @@ [rowsSignalled EXCEPT ![parentPart] = @ + 1]
           /\ returned' =
                  [NoCall EXCEPT
                      !.op = "appendChild", !.ok = TRUE,
                      !.index = CreateIndex(ModelPartList_rowCount(grown, parent) - 1,
                                            0, childPart)]
    /\ nextId' = nextId + 1
    /\ UNCHANGED <<freed, renderer, currentIndex, loads, queue, dialogs, crashed, edits>>

ModelPartList_removeRows(position, rows, parentIndex) ==
    /\ ~crashed
    /\ LET parentItem == ModelPartList_getItem(parentIndex)
           ok == RemoveRowsOk(part, position, rows, parentItem)
           shrunk == RemoveRows(part, position, rows, parentItem)
       IN  /\ part' = shrunk
           /\ freed' = freed \cup ((DOMAIN part) \ (DOMAIN shrunk))
           /\ rowsSignalled' =
                  [x \in DOMAIN shrunk |->
                      IF ok /\ x = parentItem
                      THEN rowsSignalled[x] - Cardinality(position..(position + rows - 1))
                      ELSE rowsSignalled[x]]
           /\ returned' = [NoCall EXCEPT !.op = "removeRows", !.ok = ok]
    /\ UNCHANGED <<nextId, renderer, currentIndex, loads, queue, dialogs, crashed, edits>>

Columns == -1..3                \* the columns a client passes: three exist

WrittenColumns == {-1, 1, 3}

Roles == {"DisplayRole", "EditRole"}

\* indexes obtained before the part they point to was destroyed
StaleIndexes(gone) == {CreateIndex(0, c, n) : n \in gone, c \in 0..2}

\* what a read of the memory of a destroyed part can yield
StaleReads == {QEmpty} \cup {QStr(n) : n \in GroupNames}

\* what the calls hand back to the client
ChildReturns(parts, p, row) ==
    [NoCall EXCEPT !.op = "child", !.ok = TRUE, !.item = Child(parts, p, row)]

DataReturns(parts, p, column) ==
    [NoCall EXCEPT !.op = "data", !.ok = TRUE, !.value = Data(parts, p, column)]

IndexReturns(parts, row, column, parent) ==
    [NoCall EXCEPT !.op = "index", !.ok = TRUE,
                   !.index = ModelPartList_index(parts, row, column, parent)]

ModelPart_child(p, row) ==
    /\ ~crashed
    /\ returned' = ChildReturns(part, p, row)
    /\ UNCHANGED <<part, nextId, freed, renderer, currentIndex, loads, queue, dialogs,
                   crashed, rowsSignalled, edits>>

ModelPart_data(p, column) ==
    /\ ~crashed
    /\ returned' = DataReturns(part, p, column)
    /\ UNCHANGED <<part, nextId, freed, renderer, currentIndex, loads, queue, dialogs,
                   crashed, rowsSignalled, edits>>

ModelPart_set(p, column, value) ==
    /\ ~crashed
    /\ part' = Set(part, p, column, value)
    /\ returned' = [NoCall EXCEPT !.op = "set", !.ok = TRUE]
    /\ UNCHANGED <<nextId, freed, renderer, currentIndex, loads, queue, dialogs,
                   crashed, rowsSignalled, edits>>

\* data() tests isValid() and the role, then dereferences internalPointer():
\* with the part destroyed the read is of freed memory
ModelPartList_data(index, role) ==
    /\ ~crashed
    /\ IF ~IsValid(index) \/ role # "DisplayRole"
       THEN /\ returned' = [NoCall EXCEPT !.op = "listData", !.ok = TRUE]
            /\ UNCHANGED crashed
       ELSE IF index.ptr \in DOMAIN part
            THEN /\ returned' = [NoCall EXCEPT !.op = "listData", !.ok = TRUE,
                                               !.value = Data(part, index.ptr, index.column)]
                 /\ UNCHANGED crashed
            ELSE \/ /\ \E read \in StaleReads :
                           returned' = [NoCall EXCEPT !.op = "listData", !.ok = TRUE,
                                                      !.value = read]
                    /\ UNCHANGED crashed
                 \/ /\ crashed' = TRUE
                    /\ returned' = [NoCall EXCEPT !.op = "listData"]
    /\ UNCHANGED <<part, nextId, freed, renderer, currentIndex, loads, queue, dialogs,
                   rowsSignalled, edits>>

ModelPartList_indexCall(row, column, parent) ==
    /\ ~crashed
    /\ returned' = IndexReturns(part, row, column, parent)
    /\ UNCHANGED <<part, nextId, freed, renderer, currentIndex, loads, queue, dialogs,
                   crashed, rowsSignalled, edits>>

NextList ==
    \/ \E parent \in ClientIndexes(part), data \in ClientData :
           ModelPartList_appendChild(parent, data)
    \/ \E position \in Positions, rows \in Positions, parentIndex \in ClientIndexes(part) :
           ModelPartList_removeRows(position, rows, parentIndex)

SpecList == Init /\ [][NextList]_vars

\* the parents a client of the accessors passes: QModelIndex() and the
\* index of column 0 of every part in the tree
ParentIndexes(parts) == {index \in ClientIndexes(parts) : index.column <= 0}

\* a client that grows and prunes the tree one row at a time and calls the
\* accessors of ModelPart and ModelPartList in between
NextAccess ==
    \/ \E parent \in ParentIndexes(part) :
           ModelPartList_appendChild(parent, <<QStr("Assembly"), QStr("true"), ColourText(White)>>)
    \/ \E position \in 0..(MaxParts - 1), parentIndex \in ParentIndexes(part) :
           ModelPartList_removeRows(position, 1, parentIndex)
    \/ \E p \in TreeNodes, row \in Positions : ModelPart_child(p, row)
    \/ \E p \in TreeNodes, column \in Columns : ModelPart_data(p, column)
    \/ \E p \in TreeNodes, column \in WrittenColumns : ModelPart_set(p, column, QStr("false"))
    \/ \E index \in ClientIndexes(part) \cup StaleIndexes(freed), role \in Roles :
           ModelPartList_data(index, role)
    \/ \E row \in Positions, column \in Columns, parent \in ParentIndexes(part) :
           ModelPartList_indexCall(row, column, parent)

SpecAccess == Init /\ [][NextAccess]_vars

\* ================================================================ claims
PartActors(props) == SeqToSet(props) \ {FloorActor}

ActorsInTree(parts) == {n \in Subtree(parts, RootId) : parts[n].actor}

\* how often part n occurs in the child lists of the live parts
Occurrences(parts, n) ==
    Cardinality({pi \in (DOMAIN parts) \X (1..MaxParts) :
                    /\ pi[2] <= Len(parts[pi[1]].m_childItems)
                    /\ parts[pi[1]].m_childItems[pi[2]] = n})

Done == {f \in Paths : loads[f].stage = "done"}

\* C1: every non-root node of the tree is the child its parent holds at the
\* node's own position: n.parent().childAt(n.position()) == n
C1_ParentHoldsChildAtItsRow ==
    \A n \in TreeNodes \ {RootId} :
        /\ part[n].m_parentItem \in DOMAIN part
        /\ Child(part, part[n].m_parentItem, Row(part, n)) = n

\* a second top-level row exists after an earlier part was destroyed
C1_Witness ==
    /\ freed # {}
    /\ \E n \in TreeNodes \ {RootId} : Row(part, n) = 1

\* C2: between events the part actors in the renderer are exactly the actors
\* of the parts in the tree: none of a removed part, none of the tree missing
C2_RendererMatchesTree == PartActors(renderer) = ActorsInTree(part)

\* one loaded part was deleted, another one is still in the tree and drawn
C2_Witness ==
    /\ \E l \in Done : loads[l].node \in freed
    /\ \E l \in Done : loads[l].node \in TreeNodes /\ loads[l].node \in PartActors(renderer)

\* C3: a load of a file that cannot be read inserts no node, reports no
\* success, and has reported exactly one failure once it is over
C3_UnreadableFileRejected ==
    \A f \in Paths \ Readable :
        /\ loads[f].okMsgs = 0
        /\ loads[f].stage = "done" => loads[f].failMsgs = 1
        /\ Occurrences(part, loads[f].node) = 0

\* C4: as long as nothing was deleted, every finished load of a readable file
\* has its own node in the tree exactly once, whatever order the closures ran in
C4_EachLoadOneNode ==
    freed = {} =>
        /\ \A f \in Done \cap Readable :
               /\ loads[f].node \in TreeNodes
               /\ Occurrences(part, loads[f].node) = 1
        /\ \A a \in Done, b \in Done : a # b => loads[a].node # loads[b].node

\* two readable files both loaded, the gear parsed and delivered before the
\* cube, and both of them in the tree
C4_Witness ==
    /\ freed = {}
    /\ {CubePath, GearPath} \subseteq Done
    /\ loads[GearPath].node < loads[CubePath].node
    /\ {loads[CubePath].node, loads[GearPath].node} \subseteq TreeNodes

\* C5: every change of a part's child count is announced to the view by a
\* rowsInserted / rowsRemoved bracket of the same size
C5_ChildCountChangesAnnounced ==
    [][\A n \in (DOMAIN part) \cap (DOMAIN part') :
          ChildCount(part', n) - ChildCount(part, n)
              = rowsSignalled'[n] - rowsSignalled[n]]_vars

\* the step in which the completion closure of file f runs
CompletionOf(f) == loads[f].stage = "queued" /\ loads'[f].stage = "done"

\* C6: the closure inserts the new part under the part that was current when
\* the file was submitted if that part is still in the tree, else under the root
C6_InsertedUnderSubmissionTarget ==
    [][\A f \in Paths :
          CompletionOf(f) =>
              part'[loads[f].node].m_parentItem =
                  (IF loads[f].target \in TreeNodes THEN loads[f].target ELSE RootId)]_vars

\* C7: the renderer never holds the actor of a destroyed part
C7_NoActorOfDestroyedPart == SeqToSet(renderer) \cap freed = {}

\* both loaded parts are destroyed, one row removal was signalled under the
\* seeded item, and the renderer has no part actor left
C7_Witness ==
    /\ {loads[f].node : f \in Done} \subseteq freed
    /\ Cardinality(Done) = 2
    /\ 1 \in TreeNodes
    /\ rowsSignalled[1] = -1
    /\ PartActors(renderer) = {}

\* a step in which updateRender() ran: a completion closure, or an accepted
\* option dialog on a part whose subtree holds an actor
ResyncStep ==
    \/ \E f \in Paths : CompletionOf(f)
    \/ /\ edits' # edits
       /\ \E n \in Subtree(part, currentIndex) : part[n].actor

\* C8 as claimed: after updateRender() the renderer holds exactly the actors
\* of the parts in the tree that are visible
C8_ResyncKeepsVisibleOnly ==
    [][ResyncStep =>
          PartActors(renderer') =
              {n \in ActorsInTree(part') : part'[n].isVisible}]_vars

\* C8 amended: after updateRender() the renderer holds exactly the actors of
\* the parts in the tree, visible or not, and of what it held before (the
\* floor too) nothing else; only the completion closure adds the floor again
C8_ResyncKeepsEveryActor ==
    [][ResyncStep =>
          /\ PartActors(renderer') = ActorsInTree(part')
          /\ Len(renderer') = Cardinality(SeqToSet(renderer'))
          /\ FloorActor \in SeqToSet(renderer') <=> \E f \in Paths : CompletionOf(f)]_vars

\* an invisible loaded part is in the renderer, the floor is not
C8_Witness ==
    /\ edits > 0
    /\ FloorActor \notin SeqToSet(renderer)
    /\ \E n \in TreeNodes :
           part[n].actor /\ ~part[n].isVisible /\ n \in SeqToSet(renderer)

\* C9: an accepted option dialog sets the visibility and the colour chosen on
\* the selected part and on every descendant, fields and columns alike
C9_PropagateOverwrites ==
    [][\A name \in OptionNames(Data(part, GetItem(currentIndex), 0)[1]),
          choice \in OptionChoices :
          (currentIndex # Nil /\ on_actionItemOptions_triggered(name, choice[1], choice[2])) =>
              \A d \in Subtree(part, currentIndex) :
                  /\ part'[d].isVisible = choice[1]
                  /\ part'[d].color = [valid |-> TRUE, rgb |-> choice[2]]
                  /\ Data(part', d, 1) = BoolText(choice[1])
                  /\ Data(part', d, 2) = ColourText(choice[2])]_vars

\* the seeded item, its child and its grandchild all carry the edited values
C9_Witness ==
    /\ edits > 0
    /\ \E c \in TreeNodes, g \in TreeNodes :
           /\ part[c].m_parentItem = 1
           /\ part[g].m_parentItem = c
           /\ \A d \in {1, c, g} :
                  /\ ~part[d].isVisible
                  /\ part[d].color = [valid |-> TRUE, rgb |-> Red]
                  /\ Data(part, d, 1) = QStr("false")
                  /\ Data(part, d, 2) = ColourText(Red)

\* C10 as claimed: an accepted option dialog changes no label at all
C10_NoLabelChanges ==
    [][\A name \in OptionNames(Data(part, GetItem(currentIndex), 0)[1]),
          choice \in OptionChoices :
          (currentIndex # Nil /\ on_actionItemOptions_triggered(name, choice[1], choice[2])) =>
              \A n \in DOMAIN part : Data(part', n, 0) = Data(part, n, 0)]_vars

\* C10 amended: an accepted option dialog gives the selected part the name
\* entered and leaves the label of every other part, descendants included,
\* as it was
C10_OnlySelectedLabelChanges ==
    [][\A name \in OptionNames(Data(part, GetItem(currentIndex), 0)[1]),
          choice \in OptionChoices :
          (currentIndex # Nil /\ on_actionItemOptions_triggered(name, choice[1], choice[2])) =>
              /\ Data(part', currentIndex, 0) = QStr(name)
              /\ \A n \in (DOMAIN part) \ {currentIndex} :
                     Data(part', n, 0) = Data(part, n, 0)]_vars

\* the seeded item was renamed, its loaded child was recoloured by the same
\* dialog and still carries its file name
C10_Witness ==
    /\ edits > 0
    /\ 1 \in TreeNodes
    /\ Data(part, 1, 0) = QStr("Assembly")
    /\ \E d \in TreeNodes :
           /\ part[d].m_parentItem = 1
           /\ part[d].color = [valid |-> TRUE, rgb |-> Red]
           /\ Data(part, d, 0) = QStr("cube.stl")

C12_RemoveRowsShrinksByCount ==
    [][\A position \in Positions, rows \in Positions, parentIndex \in ClientIndexes(part) :
          (ModelPartList_removeRows(position, rows, parentIndex) /\ returned'.ok) =>
              ModelPartList_rowCount(part', parentIndex)
                  = ModelPartList_rowCount(part, parentIndex) - rows]_vars

\* C13: removeRows returns false, changes no part and announces nothing
\* whenever position .. position + rows - 1 is not inside
\* 0 .. rowCount(parentIndex) - 1
C13_OutOfRangeRejected ==
    [][\A position \in Positions, rows \in Positions, parentIndex \in ClientIndexes(part) :
          ( /\ ModelPartList_removeRows(position, rows, parentIndex)
            /\ ~( (position..(position + rows - 1))
                      \subseteq (0..(ModelPartList_rowCount(part, parentIndex) - 1)) ) )
          => /\ ~returned'.ok
             /\ part' = part
             /\ rowsSignalled' = rowsSignalled]_vars

\* C14: appendChild(parent, data) makes the new part the last child of
\* parent's item, index(result.row, 0, parent) is the new part,
\* rowCount(parent) has grown by one and the earlier children keep their rows
C14_AppendChildRoundTrip ==
    [][\A parent \in ClientIndexes(part), data \in ClientData :
          ModelPartList_appendChild(parent, data) =>
              LET parentPart == ModelPartList_getItem(parent)
              IN  /\ Child(part', parentPart, ChildCount(part', parentPart) - 1) = nextId
                  /\ ModelPartList_index(part', returned'.index.row, 0, parent).ptr = nextId
                  /\ ModelPartList_rowCount(part', parent)
                         = ModelPartList_rowCount(part, parent) + 1
                  /\ \A r \in 0..(ChildCount(part, parentPart) - 1) :
                         Child(part', parentPart, r) = Child(part, parentPart, r)]_vars

\* the step in which the worker lambda of file f runs
WorkerOf(f) == loads[f].stage = "running" /\ loads'[f].stage = "queued"

\* C15: a worker step creates one part outside the tree and touches nothing
\* else: no part that existed before, no child list, not the renderer, not
\* the current index; so every write to a part of the tree is a step of the
\* main thread
C15_WorkerTouchesOnlyItsPart ==
    [][\A f \in Paths :
          WorkerOf(f) =>
              LET newPart == loads'[f].node
              IN  /\ newPart \notin DOMAIN part
                  /\ DOMAIN part' = (DOMAIN part) \cup {newPart}
                  /\ \A n \in DOMAIN part : part'[n] = part[n]
                  /\ part'[newPart].m_parentItem = Nil
                  /\ part'[newPart].m_childItems = << >>
                  /\ newPart \notin Subtree(part', RootId)
                  /\ UNCHANGED <<renderer, currentIndex, freed, dialogs, edits>>]_vars

\* a built part waits outside the tree for its closure while the part of
\* another file is already in the tree
C15_Witness ==
    \E f \in Paths, g \in Done :
        /\ loads[f].stage = "queued"
        /\ loads[f].node \in (DOMAIN part) \ TreeNodes
        /\ part[loads[f].node].actor
        /\ loads[g].node \in TreeNodes

\* C16: the closure of a load runs on a part whose loadSTL, setColour and
\* setVisible have all run, and in its one step resolves the parent from the
\* current index, appends the part, rebuilds the renderer and reports, while
\* nothing else of the main thread's state changes
C16_ClosureAfterParseAndAtomic ==
    [][\A f \in Paths :
          CompletionOf(f) =>
              LET newPart == loads[f].node
                  parentPart == CompletionParent(currentIndex)
              IN  /\ newPart \in DOMAIN part
                  /\ part[newPart].actor
                  /\ part[newPart].color = [valid |-> TRUE, rgb |-> White]
                  /\ part[newPart].isVisible
                  /\ part'[newPart].m_parentItem = parentPart
                  /\ Child(part', parentPart, ChildCount(part', parentPart) - 1) = newPart
                  /\ newPart \in SeqToSet(renderer')
                  /\ PartActors(renderer') = ActorsInTree(part')
                  /\ loads'[f].okMsgs + loads'[f].failMsgs
                         = loads[f].okMsgs + loads[f].failMsgs + 1
                  /\ \A g \in Paths \ {f} : loads'[g] = loads[g]
                  /\ \A n \in (DOMAIN part) \ {newPart, parentPart} : part'[n] = part[n]
                  /\ DOMAIN part' = DOMAIN part
                  /\ UNCHANGED <<nextId, freed, currentIndex, dialogs, edits, crashed>>]_vars

\* the closure of cube.stl has run and its part was recoloured afterwards,
\* the closure of gear.stl is posted and has not run yet
C16_Witness ==
    /\ loads[CubePath].stage = "done"
    /\ loads[CubePath].node \in TreeNodes
    /\ part[loads[CubePath].node].color = [valid |-> TRUE, rgb |-> Red]
    /\ loads[GearPath].stage = "queued"
    /\ queue = <<GearPath>>

Notified(f) == loads[f].okMsgs + loads[f].failMsgs

\* C17: while the process lives, every submitted load is eventually reported
\* exactly once, and at no time has a load been reported that was not
\* submitted, or reported twice
C17_EveryLoadReportedOnce ==
    /\ \A f \in Paths :
           (loads[f].stage = "running") ~> (Notified(f) = 1 \/ crashed)
    /\ [](\A f \in Paths :
             /\ Notified(f) <= 1
             /\ loads[f].stage \in {"idle", "running", "queued"} => Notified(f) = 0
             /\ loads[f].stage = "done" => Notified(f) = 1)

\* two files were submitted and each has been reported once
C17_Witness ==
    /\ Cardinality(Done) = 2
    /\ \A f \in Done : Notified(f) = 1
    /\ \A f \in Paths \ Done : loads[f].stage = "idle" /\ Notified(f) = 0

HeaderLabels == <<QStr("Part"), QStr("Visible?"), QStr("Colour")>>

\* C18: the header item of ModelPartList is always there, never destroyed,
\* never the current index, has no actor and keeps its three labels; a
\* delete request with no current index (which is how the header item is
\* addressed) changes nothing
C18_RootSentinelKept ==
    [][/\ RootId \in DOMAIN part' /\ RootId \notin freed'
       /\ currentIndex' # RootId
       /\ part'[RootId].m_parentItem = Nil
       /\ ~part'[RootId].actor
       /\ part'[RootId].m_itemData = HeaderLabels
       /\ (currentIndex = Nil /\ on_actionDeleteFile_triggered(TRUE)) =>
              UNCHANGED <<part, renderer, freed, rowsSignalled>>]_vars

\* parts were destroyed and an option dialog was accepted, nothing is
\* selected now and the header item is as it was made
C18_Witness ==
    /\ freed # {} /\ edits > 0
    /\ currentIndex = Nil
    /\ part[RootId].m_itemData = HeaderLabels
    /\ ChildCount(part, RootId) > 0

\* C19: a delete that destroys anything destroys exactly the subtree of the
\* current part: those parts leave the tree and the heap, no other part does
C19_DeleteCascades ==
    [][freed' # freed =>
          LET gone == Subtree(part, currentIndex)
          IN  /\ currentIndex \in TreeNodes \ {RootId}
              /\ Subtree(part', RootId) = TreeNodes \ gone
              /\ Cardinality(Subtree(part', RootId))
                     = Cardinality(TreeNodes) - Cardinality(gone)
              /\ freed' = freed \cup gone
              /\ DOMAIN part' = (DOMAIN part) \ gone
              /\ \A n \in TreeNodes \ gone :
                     /\ part'[n].m_parentItem = part[n].m_parentItem
                     /\ part'[n].m_itemData = part[n].m_itemData]_vars

\* two parts are destroyed although only one row removal was announced, and
\* that one under the seeded item
C19_Witness ==
    /\ Cardinality(freed) = 2
    /\ 1 \in TreeNodes
    /\ rowsSignalled[1] = -1
    /\ rowsSignalled[RootId] = 0
    /\ \A n \in TreeNodes \ {RootId, 1} : rowsSignalled[n] = 0

\* the subtree of the current part holds an actor
GeometrySelected == \E n \in Subtree(part, currentIndex) : part[n].actor

\* C20 as claimed: a load completion, a delete and an accepted option dialog
\* each end with the renderer rebuilt from the tree by updateRender()
C20_EveryEventResyncs ==
    [][/\ (\E f \in Paths : CompletionOf(f)) =>
              renderer' = AddFloor(UpdateRender(part'))
       /\ (freed' # freed \/ edits' # edits) =>
              renderer' = UpdateRender(part')]_vars

\* C20 amended: a load completion rebuilds the renderer and adds the floor;
\* an accepted option dialog rebuilds it when the subtree of the current
\* part holds an actor and leaves it alone otherwise; a delete does not
\* rebuild it but takes the actors of the deleted subtree out of it
C20_ResyncOnlyWithGeometry ==
    [][/\ (\E f \in Paths : CompletionOf(f)) =>
              renderer' = AddFloor(UpdateRender(part'))
       /\ (edits' # edits /\ GeometrySelected) =>
              renderer' = UpdateRender(part')
       /\ (edits' # edits /\ ~GeometrySelected) =>
              renderer' = renderer
       /\ (freed' # freed) =>
              renderer' = SelectSeq(renderer,
                              LAMBDA a : a \notin Subtree(part, currentIndex))]_vars

\* after a delete and an option dialog on a part without geometry the floor
\* is still rendered, next to the actor of a part
C20_Witness ==
    /\ freed # {} /\ edits > 0
    /\ \A f \in Paths : loads[f].stage \in {"idle", "done"}
    /\ Len(renderer) = 2
    /\ renderer[2] = FloorActor
    /\ \E n \in TreeNodes : part[n].actor /\ part[n].isVisible /\ renderer[1] = n

\* C21: accepting the new-group dialog, whatever index its lambda holds,
\* leaves the renderer's view props as they were, and the part it makes has
\* no actor
C21_GroupCreationKeepsRenderer ==
    [][\A i \in 1..MaxDialogs, groupName \in GroupNames :
          NewGroupDialog_accepted(i, groupName) =>
              /\ renderer' = renderer
              /\ nextId' # nextId => ~part'[nextId].actor]_vars

\* a group sits under a loaded part whose actor is rendered next to the floor
C21_Witness ==
    \E g \in TreeNodes \ {RootId} :
        /\ ~part[g].actor
        /\ part[g].m_parentItem # RootId
        /\ part[part[g].m_parentItem].actor
        /\ part[g].m_parentItem \in SeqToSet(renderer)
        /\ FloorActor \in SeqToSet(renderer)

RECURSIVE ReachesRoot(_, _, _)
ReachesRoot(parts, n, fuel) ==
    IF n = RootId
    THEN TRUE
    ELSE IF fuel = 0 \/ n \notin DOMAIN parts
         THEN FALSE
         ELSE ReachesRoot(parts, parts[n].m_parentItem, fuel - 1)

\* C22: every part of the tree other than the header item is held once by
\* exactly one child list, that of the part its m_parentItem names, and its
\* parent chain ends at the header item; the header item has no parent
C22_TreeSinglyParentedAcyclic ==
    /\ part[RootId].m_parentItem = Nil
    /\ Occurrences(part, RootId) = 0
    /\ \A n \in TreeNodes \ {RootId} :
           /\ Occurrences(part, n) = 1
           /\ part[n].m_parentItem \in TreeNodes
           /\ \E k \in 1..ChildCount(part, part[n].m_parentItem) :
                  part[part[n].m_parentItem].m_childItems[k] = n
           /\ ReachesRoot(part, n, MaxParts + 1)

\* a part three levels below the header item
C22_Witness ==
    /\ Cardinality(TreeNodes) = MaxParts + 1
    /\ \E n \in TreeNodes \ {RootId} :
           /\ part[n].m_parentItem # RootId
           /\ part[part[n].m_parentItem].m_parentItem # RootId
           /\ part[part[part[n].m_parentItem].m_parentItem].m_parentItem = RootId

\* C25: getNewActor() returns none exactly for the parts without an actor,
\* and for a part whose file was read it returns an actor with a copy of
\* the part's colour
C25_CloneOnlyFailsWithoutGeometry ==
    \A n \in DOMAIN part :
        /\ (GetNewActor(part, n) = Nil) <=> ~part[n].actor
        /\ (part[n].actor /\ part[n].meshRead) =>
               /\ GetNewActor(part, n) # Nil
               /\ GetNewActor(part, n).property = part[n].color.rgb

\* C26: the part a closure inserts carries the file name, white, visible,
\* an actor and no children, and a part is given an actor only when its
\* file could be read
C26_LoadDefaultsOnlyAfterParse ==
    [][/\ \A f \in Paths :
             CompletionOf(f) =>
                 LET n == loads[f].node
                 IN  /\ Data(part', n, 0) = QStr(FileName(f))
                     /\ part'[n].color = [valid |-> TRUE, rgb |-> White]
                     /\ part'[n].isVisible
                     /\ part'[n].actor
                     /\ part'[n].m_childItems = << >>
       /\ \A n \in DOMAIN part' : part'[n].actor => part'[n].meshRead]_vars

RECURSIVE PreOrder(_, _), PreOrderRows(_, _, _)
PreOrder(parts, n) == <<n>> \o PreOrderRows(parts, n, 1)

PreOrderRows(parts, n, k) ==
    IF k > Len(parts[n].m_childItems)
    THEN << >>
    ELSE PreOrder(parts, parts[n].m_childItems[k]) \o PreOrderRows(parts, n, k + 1)

\* C28: updateRender() leaves in the renderer the parts with an actor in
\* depth-first pre-order of the tree, each once, and the option dialog
\* reaches the parts below the current one in pre-order, each once
C28_TraversalsArePreOrder ==
    [][/\ ResyncStep =>
              RemoveViewProp(renderer', FloorActor)
                  = SelectSeq(PreOrder(part', RootId), LAMBDA x : part'[x].actor)
       /\ \A n \in Subtree(part', RootId) \ {RootId} :
              <<n>> \o UpdateChildrenVisits(part', n, 0) = PreOrder(part', n)]_vars

\* the renderer was rebuilt by an option dialog and holds a part of the
\* first branch before the older part of the second branch
C28_Witness ==
    /\ edits > 0
    /\ FloorActor \notin SeqToSet(renderer)
    /\ Len(renderer) = 2
    /\ renderer[1] > renderer[2]
    /\ part[renderer[1]].m_parentItem # RootId
    /\ part[renderer[2]].m_parentItem = RootId

\* C29: after every step that rebuilds the renderer it holds the floor
\* actor exactly once
C29_FloorAfterEveryRebuild ==
    [][ResyncStep =>
          Cardinality({k \in 1..Len(renderer') : renderer'[k] = FloorActor}) = 1]_vars

\* C30: accepting the new-group dialog never touches a destroyed part: the
\* process lives on and the group is in the tree, under a part of the tree
C30_GroupParentInTree ==
    [][\A i \in 1..MaxDialogs, groupName \in GroupNames :
          NewGroupDialog_accepted(i, groupName) =>
              /\ ~crashed'
              /\ nextId \in Subtree(part', RootId)
              /\ part'[nextId].m_parentItem \in TreeNodes]_vars

\* the range tests of the accessors: ModelPart::child, data and set,
\* ModelPartList::data and index, for the step a client's call takes
AccessorsRejectOutOfRange ==
    /\ returned'.op = "child" =>
           /\ part' = part
           /\ \A p \in TreeNodes, row \in Positions :
                  ( /\ returned' = ChildReturns(part, p, row)
                    /\ (row < 0 \/ row >= ChildCount(part, p)) ) => returned'.item = Nil
    /\ returned'.op = "data" =>
           /\ part' = part
           /\ \A p \in TreeNodes, column \in Columns :
                  ( /\ returned' = DataReturns(part, p, column)
                    /\ column \notin 0..2 ) => returned'.value = QEmpty
    /\ returned'.op = "set" =>
           \A p \in TreeNodes, column \in WrittenColumns :
               ( /\ part' = Set(part, p, column, QStr("false"))
                 /\ column \notin 0..2 ) => part' = part
    /\ returned'.op = "listData" =>
           /\ part' = part
           /\ \A role \in Roles :
                  ModelPartList_data(InvalidIndex, role) =>
                      returned'.value = QEmpty /\ ~crashed'
    /\ returned'.op = "index" =>
           /\ part' = part
           /\ IsValid(returned'.index) =>
                  \A row \in Positions, column \in Columns, parent \in ParentIndexes(part) :
                      ( \/ row \notin 0..(ChildCount(part, ModelPartList_getItem(parent)) - 1)
                        \/ column \notin 0..2 )
                      => returned' # IndexReturns(part, row, column, parent)

\* C23 as stated: an accessor given an out-of-range row or column returns
\* none, the empty value or the invalid index and changes nothing, and
\* index() and data() given the invalid index return the invalid index and
\* the empty value
C23_InvalidIndexHasNoChildren ==
    [][/\ AccessorsRejectOutOfRange
       /\ returned'.op = "index" =>
              \A row \in Positions, column \in Columns :
                  returned' = IndexReturns(part, row, column, InvalidIndex) =>
                      returned'.index = InvalidIndex]_vars

\* C23: an accessor given an out-of-range row or column returns none, the
\* empty value or the invalid index and changes nothing, data() given the
\* invalid index returns the empty value, and index() given the invalid
\* index as parent addresses the rows below the header item: it returns the
\* invalid index exactly when the row or the column is out of range
C23_OutOfRangeGivesSentinel ==
    [][/\ AccessorsRejectOutOfRange
       /\ returned'.op = "index" =>
              \A row \in Positions, column \in Columns :
                  returned' = IndexReturns(part, row, column, InvalidIndex) =>
                      ( returned'.index = InvalidIndex
                          <=> ( \/ row \notin 0..(ChildCount(part, RootId) - 1)
                                \/ column \notin 0..2 ) )]_vars

\* index() was called with the invalid index as parent and returned the
\* index of the second top-level row
C23_Witness ==
    /\ returned.op = "index"
    /\ IsValid(returned.index)
    /\ returned.index.row = 1
    /\ returned.index.ptr \in TreeNodes
    /\ part[returned.index.ptr].m_parentItem = RootId

\* C24: data() called with an index whose part was destroyed since the
\* index was obtained returns the empty value and the process lives on
C24_StaleIndexGivesSentinel ==
    [][\A index \in StaleIndexes(freed), role \in Roles :
          ModelPartList_data(index, role) =>
              /\ returned'.value = QEmpty
              /\ ~crashed']_vars

\* C27: a removeRows(position, rows, parentIndex) that returns true destroys
\* exactly the children at position .. position + rows - 1, leaves every
\* child before position at its row and moves every child from
\* position + rows on up by rows
C27_RemoveRowsShiftsLaterSiblings ==
    [][\A position \in Positions, rows \in Positions, parentIndex \in ClientIndexes(part) :
          (ModelPartList_removeRows(position, rows, parentIndex) /\ returned'.ok) =>
              LET p == ModelPartList_getItem(parentIndex)
                  before == part[p].m_childItems
                  after == part'[p].m_childItems
              IN  /\ \A q \in 0..(Len(before) - 1) :
                         /\ q < position =>
                                q < Len(after) /\ after[q + 1] = before[q + 1]
                         /\ q >= position + rows =>
                                /\ q - rows \in 0..(Len(after) - 1)
                                /\ after[q - rows + 1] = before[q + 1]
                  /\ \A q \in position..(position + rows - 1) :
                         q \in 0..(Len(before) - 1) /\ before[q + 1] \notin DOMAIN part']_vars

\* C31: for every part in the tree below the header item the visibility
\* column reads "true" exactly when isVisible is set and the colour column
\* reads the part's colour
C31_ColumnsAgreeWithFields ==
    \A n \in TreeNodes \ {RootId} :
        /\ Data(part, n, 1) = BoolText(part[n].isVisible)
        /\ Data(part, n, 2) = ColourText(part[n].color.rgb)

\* C32: a confirmed delete leaves everything as it was when the current item
\* is the item seeded at start-up (part 1), and destroys the current item
\* whenever it is any other part
C32_OnlySeededItemProtected ==
    [][(currentIndex # Nil /\ on_actionDeleteFile_triggered(TRUE)) =>
          IF currentIndex = 1
          THEN part' = part
          ELSE currentIndex \notin DOMAIN part']_vars

\* C33: both ends of the range passed to dataChanged by a load completion
\* and by the option dialog, for the selected part and for each of its
\* descendants, are indexes of the part that was inserted or changed
C33_DataChangedNamesThePart ==
    [][/\ \A f \in Paths :
             CompletionOf(f) =>
                 \A k \in 1..2 :
                     CompletionDataChanged(part', loads[f].node)[k].ptr = loads[f].node
       /\ (currentIndex # Nil /\ edits' = edits + 1) =>
              \A n \in Subtree(part, currentIndex), k \in 1..2 :
                  ApplyDataChanged(part', n)[k].ptr = n]_vars

\* C34: an accepted option dialog leaves every part that is neither the
\* selected part nor one of its descendants as it was, creates and destroys
\* no part and changes no child list and no parent
C34_PropagationStaysInSubtree ==
    [][\A name \in OptionNames(Data(part, GetItem(currentIndex), 0)[1]),
          choice \in OptionChoices :
          (currentIndex # Nil /\ on_actionItemOptions_triggered(name, choice[1], choice[2])) =>
              /\ DOMAIN part' = DOMAIN part
              /\ \A m \in (DOMAIN part) \ Subtree(part, currentIndex) : part'[m] = part[m]
              /\ \A m \in DOMAIN part :
                     /\ part'[m].m_childItems = part[m].m_childItems
                     /\ part'[m].m_parentItem = part[m].m_parentItem]_vars

\* a part below the seeded item and its child were made red and invisible
\* by the dialog, the seeded item above them still has its first colour
C34_Witness ==
    /\ edits > 0
    /\ 1 \in TreeNodes
    /\ part[1].color = InvalidColour
    /\ \E a \in TreeNodes, b \in TreeNodes :
           /\ part[a].m_parentItem = 1
           /\ part[b].m_parentItem = a
           /\ \A d \in {a, b} :
                  ~part[d].isVisible /\ part[d].color = [valid |-> TRUE, rgb |-> Red]

\* C35: for every parent index, valid or not, and every row below
\* rowCount(parent), index(row, column, parent) is a valid index of that
\* row whose parent() is the parent index's item again
C35_IndexParentRoundTrip ==
    \A parent \in ClientIndexes(part) :
        \A row \in 0..(ModelPartList_rowCount(part, parent) - 1), column \in 0..2 :
            LET childIndex == ModelPartList_index(part, row, column, parent)
            IN  /\ IsValid(childIndex)
                /\ childIndex.row = row
                /\ ModelPartList_getItem(ModelPartList_parent(part, childIndex))
                       = ModelPartList_getItem(parent)
                /\ IsValid(parent) => ModelPartList_parent(part, childIndex) = parent

\* the seeded item has two rows below it, reached through its valid index
C35_Witness ==
    \E parent \in ClientIndexes(part) :
        /\ IsValid(parent)
        /\ ModelPartList_rowCount(part, parent) = 2
        /\ ModelPartList_index(part, 1, 0, parent).ptr \in TreeNodes \ {RootId}
====
